---- MODULE Spec2Model ----
(***************************************************************************)
(* Model of the all-sports backend: the auth, category and product        *)
(* controllers running against one MySQL connection.  Every handler is an *)
(* async function; it runs synchronously up to its first await and then   *)
(* one store (or bcrypt) call at a time, so each call is one atomic step  *)
(* and the steps of different requests interleave freely.                 *)
(*                                                                         *)
(* JSON values are records [k, n, s]: k is the JS type, n the number, s   *)
(* the string as a sequence of one-character strings.  Path parameters    *)
(* are always strings.                                                     *)
(***************************************************************************)
EXTENDS Integers, Sequences, FiniteSets, TLC

VARIABLES users, categories, products, seqUser, seqCat, seqProd, req, sent

vars == <<users, categories, products, seqUser, seqCat, seqProd, req, sent>>

(* ---------------------------------------------------------------- bounds *)

\* AUTO_INCREMENT values handed out per table in one behaviour.
MaxUserId == 2
MaxCatId == 2
MaxProdId == 2
\* Number of distinct bcrypt salts.
NumSalts == 2

\* Requests that can be in flight at the same time.
Clients == {"r1", "r2"}

(* ------------------------------------------------------------ JS values *)

Undef == [k |-> "undef", n |-> 0, s |-> <<>>]
Null == [k |-> "null", n |-> 0, s |-> <<>>]
Num(i) == [k |-> "num", n |-> i, s |-> <<>>]
Str(cs) == [k |-> "str", n |-> 0, s |-> cs]

Digits == {"0", "1", "2", "3", "4", "5", "6", "7", "8", "9"}
DigitVal(d) ==
  CASE d = "0" -> 0 [] d = "1" -> 1 [] d = "2" -> 2 [] d = "3" -> 3
    [] d = "4" -> 4 [] d = "5" -> 5 [] d = "6" -> 6 [] d = "7" -> 7
    [] d = "8" -> 8 [] d = "9" -> 9
DigitChar(i) ==
  CASE i = 0 -> "0" [] i = 1 -> "1" [] i = 2 -> "2" [] i = 3 -> "3"
    [] i = 4 -> "4" [] i = 5 -> "5" [] i = 6 -> "6" [] i = 7 -> "7"
    [] i = 8 -> "8" [] i = 9 -> "9"
WhiteSpace == {" "}

\* String.prototype.trim
RECURSIVE TrimLeft(_)
TrimLeft(cs) ==
  IF cs # <<>> /\ Head(cs) \in WhiteSpace THEN TrimLeft(Tail(cs)) ELSE cs
RECURSIVE TrimRight(_)
TrimRight(cs) ==
  IF cs # <<>> /\ cs[Len(cs)] \in WhiteSpace
  THEN TrimRight(SubSeq(cs, 1, Len(cs) - 1))
  ELSE cs
Trim(cs) == TrimRight(TrimLeft(cs))

AllDigits(cs) == \A i \in 1..Len(cs) : cs[i] \in Digits
RECURSIVE DecVal(_)
DecVal(cs) ==
  IF cs = <<>> THEN 0
  ELSE 10 * DecVal(SubSeq(cs, 1, Len(cs) - 1)) + DigitVal(cs[Len(cs)])
RECURSIVE ToDigits(_)
ToDigits(i) ==
  IF i < 10 THEN <<DigitChar(i)>> ELSE ToDigits(i \div 10) \o <<DigitChar(i % 10)>>

\* A JS number: NaN, or sign, integer part and whether a fraction is left.
NaN == [nan |-> TRUE, neg |-> FALSE, ip |-> 0, fr |-> FALSE]
JsInt(i) ==
  [nan |-> FALSE, neg |-> i < 0, ip |-> IF i < 0 THEN 0 - i ELSE i, fr |-> FALSE]

\* StrUnsignedDecimalLiteral: digits [. digits] or . digits (no exponent,
\* hex or Infinity: any other character makes the string NaN).
UnsignedLiteral(cs, neg) ==
  LET dots == {i \in 1..Len(cs) : cs[i] = "."}
  IN IF dots = {}
     THEN IF cs # <<>> /\ AllDigits(cs)
          THEN [nan |-> FALSE, neg |-> neg, ip |-> DecVal(cs), fr |-> FALSE]
          ELSE NaN
     ELSE IF Cardinality(dots) > 1 THEN NaN
     ELSE LET p == CHOOSE i \in dots : TRUE
              int == SubSeq(cs, 1, p - 1)
              frac == SubSeq(cs, p + 1, Len(cs))
          IN IF AllDigits(int) /\ AllDigits(frac) /\ Len(int) + Len(frac) > 0
             THEN [nan |-> FALSE, neg |-> neg, ip |-> DecVal(int),
                   fr |-> \E i \in 1..Len(frac) : frac[i] # "0"]
             ELSE NaN

\* StringToNumber: trims, "" is 0, optional sign.
StringToNumber(cs) ==
  LET t == Trim(cs)
  IN IF t = <<>> THEN JsInt(0)
     ELSE IF Head(t) = "-" THEN UnsignedLiteral(Tail(t), TRUE)
     ELSE IF Head(t) = "+" THEN UnsignedLiteral(Tail(t), FALSE)
     ELSE UnsignedLiteral(t, FALSE)

\* ToNumber(v): undefined is NaN, null is 0.
ToNumber(v) ==
  CASE v.k = "undef" -> NaN
    [] v.k = "null" -> JsInt(0)
    [] v.k = "num" -> JsInt(v.n)
    [] v.k = "str" -> StringToNumber(v.s)

\* The global isNaN(v).
IsNaN(v) == ToNumber(v).nan

\* v <= 0 (false when v is NaN).
LeqZero(v) ==
  LET x == ToNumber(v)
  IN ~x.nan /\ (x.neg \/ (x.ip = 0 /\ ~x.fr))

\* !!v
Truthy(v) ==
  CASE v.k = "undef" -> FALSE
    [] v.k = "null" -> FALSE
    [] v.k = "num" -> v.n # 0
    [] v.k = "str" -> v.s # <<>>

\* !name || typeof name !== "string" || name.trim().length === 0
BlankName(v) == ~Truthy(v) \/ v.k # "str" \/ Len(Trim(v.s)) = 0

(* ------------------------------------------------------------ the store *)

\* MySQL compares an INT column with a bound parameter numerically: NULL
\* matches nothing, a string is read as a number.
SqlIdEq(rowId, v) ==
  LET x == ToNumber(v)
  IN /\ v.k \in {"num", "str"}
     /\ ~x.nan /\ ~x.neg /\ ~x.fr
     /\ x.ip = rowId

CatIds == {r.id : r \in categories}
ProdIds == {r.id : r \in products}
UserIds == {r.id : r \in users}

\* SELECT * FROM categories WHERE id = ?
CategoriesById(v) == {r \in categories : SqlIdEq(r.id, v)}
\* SELECT * FROM categories WHERE name = ?
CategoriesByName(v) == {r \in categories : v.k = "str" /\ r.name = v.s}
\* SELECT * FROM products WHERE id = ?
ProductsById(v) == {r \in products : SqlIdEq(r.id, v)}
\* FOREIGN KEY (category_id) REFERENCES categories(id): rows referencing id.
ReferencingProducts(id) == {p \in products : p.category_id = Num(id)}

(* ------------------------------------------------- requests, responses *)

NoHash == [salt |-> 0, rounds |-> 0, digest |-> <<>>]
NoToken == [id |-> 0, expiresIn |-> 0]

\* A handler's locals: its inputs, where it waits (pc), the store calls it
\* has issued (q), and what it keeps from earlier calls (hashed, sel).
Idle ==
  [op |-> "idle", pc |-> "idle", id |-> <<>>, name |-> Undef, price |-> Undef,
   category_id |-> Undef, email |-> Undef, pass |-> Undef,
   hashed |-> NoHash, sel |-> 0, q |-> 0]

\* A response: the client and the request (rq, as it stood when it was
\* answered) it goes to, status, the message or error string, the body's
\* fields (rows for a list), and the number of store calls the request made
\* before it.  sent is the response written by the step just taken, if any.
NoResp ==
  [to |-> "none", rq |-> Idle, status |-> 0, msg |-> "", id |-> Undef,
   name |-> Undef, price |-> Undef, category_id |-> Undef, token |-> NoToken,
   rows |-> {}, q |-> 0]

Reply(status, msg, q) ==
  [NoResp EXCEPT !.status = status, !.msg = msg, !.q = q]

InternalError(q) == Reply(500, "Internal server error", q)

\* The awaits of bcrypt calls; every other await is a query of the store.
HashingCalls == {"hash", "compare"}

\* res.status(..).json(..) ends the handler.
Respond(c, rq, r) ==
  /\ sent' = [r EXCEPT !.to = c, !.rq = rq]
  /\ req' = [req EXCEPT ![c] = Idle]

\* A check made before the first await fails: 400, no store call.
Reject(c, rq, msg) ==
  Respond(c, [rq EXCEPT !.pc = "begin"], Reply(400, msg, 0))

\* The handler reached an await: the call is issued, the request waits at pc.
Await(c, r) ==
  /\ req' = [req EXCEPT ![c] = r]
  /\ sent' = NoResp

\* The awaited call returned and the handler goes on to its next await.
Goto(c, pc) ==
  /\ req' = [req EXCEPT ![c].pc = pc, ![c].q = @ + 1]
  /\ sent' = NoResp

At(c, op, pc) == req[c].op = op /\ req[c].pc = pc

\* Mutant: the rejected call is issued again and nothing is answered.
CallFailsRetry(c) ==
  /\ req[c].op # "idle"
  /\ UNCHANGED <<users, categories, products, seqUser, seqCat, seqProd>>
  /\ req' = [req EXCEPT ![c].q = @ + 1]
  /\ sent' = NoResp

\* The call a handler awaits (a query, bcrypt.hash or bcrypt.compare)
\* rejects: every await is inside the handler's try, whose catch answers 500
\* and ends the handler. The rejected statement changes no table.
CallFails(c) ==
  /\ req[c].op # "idle"
  /\ UNCHANGED <<users, categories, products, seqUser, seqCat, seqProd>>
  /\ Respond(c, req[c],
             InternalError(IF req[c].pc \in HashingCalls
                           THEN req[c].q ELSE req[c].q + 1))

InFlight(op) == Cardinality({c \in Clients : req[c].op = op})

UsersUnchanged == UNCHANGED <<users, seqUser>>
CategoriesUnchanged == UNCHANGED <<categories, seqCat>>
ProductsUnchanged == UNCHANGED <<products, seqProd>>
TablesUnchanged ==
  UNCHANGED <<users, categories, products, seqUser, seqCat, seqProd>>

\* Request inputs: path ids, category names, and the name, price and
\* category_id of a product body.
Inputs(ids, names, pnames, prices, cats) ==
  [ids |-> ids, names |-> names, pnames |-> pnames, prices |-> prices,
   cats |-> cats]

Init ==
  /\ users = {}
  /\ categories = {}
  /\ products = {}
  /\ seqUser = 1
  /\ seqCat = 1
  /\ seqProd = 1
  /\ req = [c \in Clients |-> Idle]
  /\ sent = NoResp

(* -------------------------------------------------------- authController *)

\* bcrypt.hash(pass, 10): the cost factor.
BcryptRounds == 10
\* jwt.sign(.., {expiresIn: "1h"}), in seconds.
TokenExpiresIn == 3600

Salts == 1..NumSalts

\* bcrypt.hash and bcrypt.compare reject a password that is no string.
BcryptIllegal(pass) == pass.k # "str"
\* bcrypt.hash(pass, rounds) with a fresh random salt.
BcryptHash(pass, salt) ==
  [salt |-> salt, rounds |-> BcryptRounds, digest |-> pass.s]
\* bcrypt.compare(pass, hash)
BcryptCompare(pass, hash) == BcryptHash(pass, hash.salt) = hash

\* SELECT * FROM users WHERE email = ?
UsersByEmail(email) == {u \in users : email.k = "str" /\ u.email = email.s}

\* register: nothing is checked before the SELECT is issued.
RegisterBegin(c, name, email, pass) ==
  /\ req[c].op = "idle"
  /\ seqUser + InFlight("register") <= MaxUserId
  /\ TablesUnchanged
  /\ Await(c, [Idle EXCEPT !.op = "register", !.pc = "select", !.name = name,
                           !.email = email, !.pass = pass])

\* Mutant: register does not look at what the SELECT returned.
RegisterSelectUnchecked(c) ==
  /\ At(c, "register", "select")
  /\ TablesUnchanged
  /\ Goto(c, "hash")

\* The SELECT by email: 400 when a row came back.
RegisterSelect(c) ==
  /\ At(c, "register", "select")
  /\ TablesUnchanged
  /\ IF UsersByEmail(req[c].email) # {}
     THEN Respond(c, req[c], Reply(400, "Email already registered", req[c].q + 1))
     ELSE Goto(c, "hash")

\* await bcrypt.hash(pass, 10): a rejection is answered with 500.
RegisterHash(c) ==
  /\ At(c, "register", "hash")
  /\ TablesUnchanged
  /\ IF BcryptIllegal(req[c].pass)
     THEN Respond(c, req[c], InternalError(req[c].q))
     ELSE \E salt \in Salts :
            /\ req' = [req EXCEPT ![c].pc = "insert",
                                  ![c].hashed = BcryptHash(req[c].pass, salt)]
            /\ sent' = NoResp

\* Mutant: the INSERT is given pass as it came, not hashedPassword.
RegisterInsertPlain(c) ==
  /\ At(c, "register", "insert")
  /\ users' = users \cup
       {[id |-> seqUser, name |-> req[c].name.s, email |-> req[c].email.s,
         pass |-> [NoHash EXCEPT !.digest = req[c].pass.s]]}
  /\ seqUser' = seqUser + 1
  /\ CategoriesUnchanged /\ ProductsUnchanged
  /\ Respond(c, req[c],
             Reply(201, "User registered successfully", req[c].q + 1))

\* INSERT INTO users (name, email, pass) VALUES (?, ?, ?), then 201.
RegisterInsert(c) ==
  /\ At(c, "register", "insert")
  /\ users' = users \cup {[id |-> seqUser, name |-> req[c].name.s,
                           email |-> req[c].email.s, pass |-> req[c].hashed]}
  /\ seqUser' = seqUser + 1
  /\ CategoriesUnchanged /\ ProductsUnchanged
  /\ Respond(c, req[c], Reply(201, "User registered successfully", req[c].q + 1))

\* login: nothing is checked before the SELECT is issued.
LoginBegin(c, email, pass) ==
  /\ req[c].op = "idle"
  /\ TablesUnchanged
  /\ Await(c, [Idle EXCEPT !.op = "login", !.pc = "select", !.email = email,
                           !.pass = pass])

\* The SELECT by email: 400 when no row came back, else user = users[0].
\* The query has no ORDER BY, so any matching row can come first.
LoginSelect(c) ==
  /\ At(c, "login", "select")
  /\ TablesUnchanged
  /\ LET found == UsersByEmail(req[c].email)
     IN IF found = {}
        THEN Respond(c, req[c], Reply(400, "User not found", req[c].q + 1))
        ELSE \E user \in found :
               /\ req' = [req EXCEPT ![c].pc = "compare", ![c].q = @ + 1,
                                     ![c].sel = user.id,
                                     ![c].hashed = user.pass]
               /\ sent' = NoResp

\* Mutant: a successful login stores a fresh hash of the password.
LoginCompareRehash(c) ==
  /\ At(c, "login", "compare")
  /\ CategoriesUnchanged /\ ProductsUnchanged /\ UNCHANGED seqUser
  /\ IF BcryptIllegal(req[c].pass)
     THEN /\ UNCHANGED users
          /\ Respond(c, req[c], InternalError(req[c].q))
     ELSE IF ~BcryptCompare(req[c].pass, req[c].hashed)
     THEN /\ UNCHANGED users
          /\ Respond(c, req[c], Reply(400, "Invalid credentials", req[c].q))
     ELSE /\ \E salt \in Salts :
               users' = {IF u.id = req[c].sel
                         THEN [u EXCEPT !.pass = BcryptHash(req[c].pass, salt)]
                         ELSE u : u \in users}
          /\ Respond(c, req[c],
                     [Reply(200, "Login Success.", req[c].q + 1) EXCEPT
                        !.token = [id |-> req[c].sel,
                                   expiresIn |-> TokenExpiresIn]])

\* await bcrypt.compare(pass, user.pass), then 400 or jwt.sign and 200.
LoginCompare(c) ==
  /\ At(c, "login", "compare")
  /\ TablesUnchanged
  /\ IF BcryptIllegal(req[c].pass)
     THEN Respond(c, req[c], InternalError(req[c].q))
     ELSE IF ~BcryptCompare(req[c].pass, req[c].hashed)
     THEN Respond(c, req[c], Reply(400, "Invalid credentials", req[c].q))
     ELSE Respond(c, req[c], [Reply(200, "Login Success.", req[c].q) EXCEPT
                        !.token = [id |-> req[c].sel,
                                   expiresIn |-> TokenExpiresIn]])

AuthStep(c, in) ==
  \/ \E name \in in.unames, email \in in.emails, pass \in in.passes :
       RegisterBegin(c, name, email, pass)
  \/ RegisterSelect(c)
  \/ RegisterHash(c)
  \/ RegisterInsert(c)
  \/ \E email \in in.emails, pass \in in.passes : LoginBegin(c, email, pass)
  \/ LoginSelect(c)
  \/ LoginCompare(c)

(* ---------------------------------------------------- categoryController *)

InvalidCategoryName ==
  "Category name is required and must be a non-empty string."

\* getCategories: the SELECT is issued at once.
GetCategoriesBegin(c) ==
  /\ req[c].op = "idle"
  /\ TablesUnchanged
  /\ Await(c, [Idle EXCEPT !.op = "getCategories", !.pc = "select"])

\* SELECT * FROM categories, then 200 with the rows.
GetCategoriesSelect(c) ==
  /\ At(c, "getCategories", "select")
  /\ TablesUnchanged
  /\ Respond(c, req[c], [Reply(200, "", req[c].q + 1) EXCEPT
                           !.rows = categories])

\* Mutant: an id that is the id of no row is refused as invalid.
GetCategoryByIdBeginStore(c, id) ==
  /\ req[c].op = "idle"
  /\ TablesUnchanged
  /\ LET rq == [Idle EXCEPT !.op = "getCategoryById", !.pc = "select",
                            !.id = id]
     IN IF IsNaN(Str(id)) \/ CategoriesById(Str(id)) = {}
        THEN Reject(c, rq, "Invalid category ID")
        ELSE Await(c, rq)

\* getCategoryById: the id check, then the SELECT is issued.
GetCategoryByIdBegin(c, id) ==
  /\ req[c].op = "idle"
  /\ TablesUnchanged
  /\ LET rq == [Idle EXCEPT !.op = "getCategoryById", !.pc = "select",
                            !.id = id]
     IN IF IsNaN(Str(id))
        THEN Reject(c, rq, "Invalid category ID")
        ELSE Await(c, rq)

\* SELECT * FROM categories WHERE id = ?, then 404 or the row.
GetCategoryByIdSelect(c) ==
  /\ At(c, "getCategoryById", "select")
  /\ TablesUnchanged
  /\ LET category == CategoriesById(Str(req[c].id))
         q == req[c].q + 1
     IN IF category = {}
        THEN Respond(c, req[c], Reply(404, "Category not found", q))
        ELSE \E row \in category :
               Respond(c, req[c], [Reply(200, "", q) EXCEPT !.id = Num(row.id),
                                                    !.name = Str(row.name)])

\* createCategory: the name check, then categoryExists(name) is issued.
CreateCategoryBegin(c, name) ==
  /\ req[c].op = "idle"
  /\ TablesUnchanged
  /\ LET rq == [Idle EXCEPT !.op = "createCategory", !.pc = "exists",
                            !.name = name]
     IN IF BlankName(name)
        THEN Reject(c, rq, InvalidCategoryName)
        ELSE /\ seqCat + InFlight("createCategory") <= MaxCatId
             /\ Await(c, rq)

\* Mutant: a name that is taken is refused after its rows were dropped.
CreateCategoryExistsDropped(c) ==
  /\ At(c, "createCategory", "exists")
  /\ UsersUnchanged /\ ProductsUnchanged /\ UNCHANGED seqCat
  /\ IF CategoriesByName(req[c].name) # {}
     THEN /\ categories' = categories \ CategoriesByName(req[c].name)
          /\ Respond(c, req[c],
                     Reply(400, "Category already exists", req[c].q + 1))
     ELSE /\ UNCHANGED categories
          /\ Goto(c, "insert")

\* categoryExists(name): SELECT * FROM categories WHERE name = ?
CreateCategoryExists(c) ==
  /\ At(c, "createCategory", "exists")
  /\ TablesUnchanged
  /\ IF CategoriesByName(req[c].name) # {}
     THEN Respond(c, req[c], Reply(400, "Category already exists", req[c].q + 1))
     ELSE Goto(c, "insert")

\* Mutant: the response carries the next counter value, not insertId.
CreateCategoryInsertNextId(c) ==
  /\ At(c, "createCategory", "insert")
  /\ categories' = categories \cup {[id |-> seqCat, name |-> req[c].name.s]}
  /\ seqCat' = seqCat + 1
  /\ UsersUnchanged /\ ProductsUnchanged
  /\ Respond(c, req[c],
             [Reply(201, "", req[c].q + 1) EXCEPT
                !.id = Num(seqCat + 1), !.name = req[c].name])

\* INSERT INTO categories (name) VALUES (?), then 201 {id: insertId, name}.
CreateCategoryInsert(c) ==
  /\ At(c, "createCategory", "insert")
  /\ categories' = categories \cup {[id |-> seqCat, name |-> req[c].name.s]}
  /\ seqCat' = seqCat + 1
  /\ UsersUnchanged /\ ProductsUnchanged
  /\ Respond(c, req[c], [Reply(201, "", req[c].q + 1) EXCEPT !.id = Num(seqCat),
                                                     !.name = req[c].name])

\* updateCategory: the id check and the name check, then the SELECT is issued.
UpdateCategoryBegin(c, id, name) ==
  /\ req[c].op = "idle"
  /\ TablesUnchanged
  /\ LET rq == [Idle EXCEPT !.op = "updateCategory", !.pc = "select",
                            !.id = id, !.name = name]
     IN IF IsNaN(Str(id))
        THEN Reject(c, rq, "Invalid category ID")
        ELSE IF BlankName(name)
        THEN Reject(c, rq, InvalidCategoryName)
        ELSE Await(c, rq)

\* SELECT * FROM categories WHERE id = ?
UpdateCategorySelect(c) ==
  /\ At(c, "updateCategory", "select")
  /\ TablesUnchanged
  /\ IF CategoriesById(Str(req[c].id)) = {}
     THEN Respond(c, req[c], Reply(404, "Category not found", req[c].q + 1))
     ELSE Goto(c, "update")

\* Mutant: a name that another row has is refused by the UPDATE.
UpdateCategoryWriteUnique(c) ==
  /\ At(c, "updateCategory", "update")
  /\ UsersUnchanged /\ ProductsUnchanged /\ UNCHANGED seqCat
  /\ LET matched == CategoriesById(Str(req[c].id))
         q == req[c].q + 1
     IN IF matched = {}
        THEN /\ UNCHANGED categories
             /\ Respond(c, req[c], Reply(404, "Category not found", q))
        ELSE IF CategoriesByName(req[c].name) \ matched # {}
        THEN /\ UNCHANGED categories
             /\ Respond(c, req[c], InternalError(q))
        ELSE /\ categories' = (categories \ matched) \cup
                  {[id |-> r.id, name |-> req[c].name.s] : r \in matched}
             /\ Respond(c, req[c], [Reply(200, "", q) EXCEPT
                              !.id = Str(req[c].id), !.name = req[c].name])

\* UPDATE categories SET name = ? WHERE id = ?, 404 when affectedRows is 0,
\* else 200 {id, name} with the id as it came in the path.
UpdateCategoryWrite(c) ==
  /\ At(c, "updateCategory", "update")
  /\ UsersUnchanged /\ ProductsUnchanged /\ UNCHANGED seqCat
  /\ LET matched == CategoriesById(Str(req[c].id))
         q == req[c].q + 1
     IN IF matched = {}
        THEN /\ UNCHANGED categories
             /\ Respond(c, req[c], Reply(404, "Category not found", q))
        ELSE /\ categories' = (categories \ matched) \cup
                  {[id |-> r.id, name |-> req[c].name.s] : r \in matched}
             /\ Respond(c, req[c], [Reply(200, "", q) EXCEPT !.id = Str(req[c].id),
                                                     !.name = req[c].name])

\* deleteCategory: the id check, then the DELETE is issued.
DeleteCategoryBegin(c, id) ==
  /\ req[c].op = "idle"
  /\ TablesUnchanged
  /\ LET rq == [Idle EXCEPT !.op = "deleteCategory", !.pc = "delete",
                            !.id = id]
     IN IF IsNaN(Str(id))
        THEN Reject(c, rq, "Invalid category ID")
        ELSE Await(c, rq)

\* Mutant: nothing restricts the DELETE of a category.
DeleteUnrestricted(matched) == FALSE

\* The products table's foreign key (ON DELETE RESTRICT by default) makes
\* the DELETE of a referenced category fail.
DeleteRestricted(matched) == \E r \in matched : ReferencingProducts(r.id) # {}

\* DELETE FROM categories WHERE id = ?: 404 when affectedRows is 0, 500 when
\* the statement fails, else 204 with no body.
DeleteCategoryDelete(c) ==
  /\ At(c, "deleteCategory", "delete")
  /\ UsersUnchanged /\ ProductsUnchanged /\ UNCHANGED seqCat
  /\ LET matched == CategoriesById(Str(req[c].id))
         q == req[c].q + 1
     IN IF matched = {}
        THEN /\ UNCHANGED categories
             /\ Respond(c, req[c], Reply(404, "Category not found", q))
        ELSE IF DeleteRestricted(matched)
        THEN /\ UNCHANGED categories
             /\ Respond(c, req[c], InternalError(q))
        ELSE /\ categories' = categories \ matched
             /\ Respond(c, req[c], Reply(204, "", q))

CategoryStep(c, in) ==
  \/ \E id \in in.ids : GetCategoryByIdBegin(c, id)
  \/ GetCategoryByIdSelect(c)
  \/ \E name \in in.names : CreateCategoryBegin(c, name)
  \/ CreateCategoryExists(c)
  \/ CreateCategoryInsert(c)
  \/ \E id \in in.ids, name \in in.names : UpdateCategoryBegin(c, id, name)
  \/ UpdateCategorySelect(c)
  \/ UpdateCategoryWrite(c)
  \/ \E id \in in.ids : DeleteCategoryBegin(c, id)
  \/ DeleteCategoryDelete(c)

(* ----------------------------------------------------- productController *)

InvalidProductName ==
  "Product name is required and must be a non-empty string."
InvalidPrice == "Product price must be a positive number."
InvalidCategoryId == "Category ID must be a valid number."

\* What MySQL stores for a bound parameter, per column of the products
\* table: name VARCHAR(255) NOT NULL, price DECIMAL(10, 2) NOT NULL,
\* category_id INT.  undefined and null are bound as NULL.
SqlNull(v) == v.k \in {"undef", "null"}
SqlSigned(v) == LET x == ToNumber(v) IN IF x.neg THEN 0 - x.ip ELSE x.ip
SqlVarchar(v) == IF v.k = "num" THEN ToDigits(v.n) ELSE v.s
SqlDecimal(v) == SqlSigned(v)
SqlInt(v) == IF SqlNull(v) THEN Null ELSE Num(SqlSigned(v))
\* In strict mode (the default) a string that is no number is refused.
SqlNotNumber(v) == v.k = "str" /\ (Trim(v.s) = <<>> \/ IsNaN(v))

\* Mutant: the products table is created without its foreign key.
ForeignKeyMissing(cid) == TRUE

\* The foreign key: a non-NULL category_id must be a category's id when the
\* row is written.
ForeignKeyHolds(cid) == cid = Null \/ cid.n \in CatIds

\* Whether MySQL refuses to write (name, price, category_id) to a product row.
ProductWriteFails(name, price, category_id) ==
  \/ SqlNull(name)
  \/ SqlNull(price) \/ SqlNotNumber(price)
  \/ SqlNotNumber(category_id)
  \/ ~ForeignKeyHolds(SqlInt(category_id))

ProductRow(id, name, price, category_id) ==
  [id |-> id, name |-> SqlVarchar(name), price |-> SqlDecimal(price),
   category_id |-> SqlInt(category_id)]

\* A DECIMAL(10, 2) column comes back as a string.
DecimalString(n) == ToDigits(n) \o <<".", "0", "0">>

\* getProducts: the SELECT is issued at once.
GetProductsBegin(c) ==
  /\ req[c].op = "idle"
  /\ TablesUnchanged
  /\ Await(c, [Idle EXCEPT !.op = "getProducts", !.pc = "select"])

\* SELECT * FROM products, then 200 with the rows.
GetProductsSelect(c) ==
  /\ At(c, "getProducts", "select")
  /\ TablesUnchanged
  /\ Respond(c, req[c], [Reply(200, "", req[c].q + 1) EXCEPT
                           !.rows = products])

\* getProductById: the id check, then the SELECT is issued.
GetProductByIdBegin(c, id) ==
  /\ req[c].op = "idle"
  /\ TablesUnchanged
  /\ LET rq == [Idle EXCEPT !.op = "getProductById", !.pc = "select",
                            !.id = id]
     IN IF IsNaN(Str(id))
        THEN Reject(c, rq, "Invalid product ID")
        ELSE Await(c, rq)

\* SELECT * FROM products WHERE id = ?, then 404 or the row.
GetProductByIdSelect(c) ==
  /\ At(c, "getProductById", "select")
  /\ TablesUnchanged
  /\ LET product == ProductsById(Str(req[c].id))
         q == req[c].q + 1
     IN IF product = {}
        THEN Respond(c, req[c], Reply(404, "Product not found", q))
        ELSE \E row \in product :
               Respond(c, req[c], [Reply(200, "", q) EXCEPT
                             !.id = Num(row.id), !.name = Str(row.name),
                             !.price = Str(DecimalString(row.price)),
                             !.category_id = row.category_id])

\* Mutant: createProduct checks price before name.
CreateProductBeginPriceFirst(c, name, price, category_id) ==
  /\ req[c].op = "idle"
  /\ TablesUnchanged
  /\ LET rq == [Idle EXCEPT !.op = "createProduct", !.pc = "exists",
                            !.name = name, !.price = price,
                            !.category_id = category_id]
     IN IF IsNaN(price) \/ LeqZero(price)
        THEN Reject(c, rq, InvalidPrice)
        ELSE IF BlankName(name)
        THEN Reject(c, rq, InvalidProductName)
        ELSE IF IsNaN(category_id)
        THEN Reject(c, rq, InvalidCategoryId)
        ELSE /\ seqProd + InFlight("createProduct") <= MaxProdId
             /\ Await(c, rq)

\* createProduct: name, price and category_id are checked in this order,
\* then categoryExists(category_id) is issued.
CreateProductBegin(c, name, price, category_id) ==
  /\ req[c].op = "idle"
  /\ TablesUnchanged
  /\ LET rq == [Idle EXCEPT !.op = "createProduct", !.pc = "exists",
                            !.name = name, !.price = price,
                            !.category_id = category_id]
     IN IF BlankName(name)
        THEN Reject(c, rq, InvalidProductName)
        ELSE IF IsNaN(price) \/ LeqZero(price)
        THEN Reject(c, rq, InvalidPrice)
        ELSE IF IsNaN(category_id)
        THEN Reject(c, rq, InvalidCategoryId)
        ELSE /\ seqProd + InFlight("createProduct") <= MaxProdId
             /\ Await(c, rq)

\* Mutant: createProduct does not look at what categoryExists returned.
CreateProductExistsUnchecked(c) ==
  /\ At(c, "createProduct", "exists")
  /\ TablesUnchanged
  /\ Goto(c, "insert")

\* categoryExists(category_id): SELECT * FROM categories WHERE id = ?
CreateProductExists(c) ==
  /\ At(c, "createProduct", "exists")
  /\ TablesUnchanged
  /\ IF CategoriesById(req[c].category_id) = {}
     THEN Respond(c, req[c], Reply(400, "Category does not exist", req[c].q + 1))
     ELSE Goto(c, "insert")

\* Mutant: the INSERT is applied whatever the table's constraints say.
CreateProductInsertUnchecked(c) ==
  /\ At(c, "createProduct", "insert")
  /\ UsersUnchanged /\ CategoriesUnchanged
  /\ products' = products \cup
       {ProductRow(seqProd, req[c].name, req[c].price, req[c].category_id)}
  /\ seqProd' = seqProd + 1
  /\ Respond(c, req[c], [Reply(201, "", req[c].q + 1) EXCEPT
                           !.id = Num(seqProd), !.name = req[c].name,
                           !.price = req[c].price,
                           !.category_id = req[c].category_id])

\* INSERT INTO products (name, price, category_id) VALUES (?, ?, ?), then
\* 201 with insertId and the body's fields; 500 when the INSERT fails.
CreateProductInsert(c) ==
  /\ At(c, "createProduct", "insert")
  /\ UsersUnchanged /\ CategoriesUnchanged
  /\ LET r == req[c]
         q == r.q + 1
     IN IF ProductWriteFails(r.name, r.price, r.category_id)
        THEN /\ ProductsUnchanged
             /\ Respond(c, req[c], InternalError(q))
        ELSE /\ products' = products \cup
                  {ProductRow(seqProd, r.name, r.price, r.category_id)}
             /\ seqProd' = seqProd + 1
             /\ Respond(c, req[c], [Reply(201, "", q) EXCEPT
                              !.id = Num(seqProd), !.name = r.name,
                              !.price = r.price,
                              !.category_id = r.category_id])

\* Mutant: updateProduct checks its fields as createProduct does.
UpdateProductBeginStrict(c, id, name, price, category_id) ==
  /\ req[c].op = "idle"
  /\ TablesUnchanged
  /\ LET rq == [Idle EXCEPT !.op = "updateProduct", !.pc = "select",
                            !.id = id, !.name = name, !.price = price,
                            !.category_id = category_id]
     IN IF IsNaN(Str(id))
        THEN Reject(c, rq, "Invalid product ID")
        ELSE IF BlankName(name)
        THEN Reject(c, rq, "Product name must be a non-empty string.")
        ELSE IF IsNaN(price) \/ LeqZero(price)
        THEN Reject(c, rq, InvalidPrice)
        ELSE IF IsNaN(category_id)
        THEN Reject(c, rq, InvalidCategoryId)
        ELSE Await(c, rq)

\* updateProduct: the id check, then each field is checked only when it is
\* truthy, then the SELECT is issued.
UpdateProductBegin(c, id, name, price, category_id) ==
  /\ req[c].op = "idle"
  /\ TablesUnchanged
  /\ LET rq == [Idle EXCEPT !.op = "updateProduct", !.pc = "select",
                            !.id = id, !.name = name, !.price = price,
                            !.category_id = category_id]
     IN IF IsNaN(Str(id))
        THEN Reject(c, rq, "Invalid product ID")
        ELSE IF Truthy(name) /\ (name.k # "str" \/ Len(Trim(name.s)) = 0)
        THEN Reject(c, rq, "Product name must be a non-empty string.")
        ELSE IF Truthy(price) /\ (IsNaN(price) \/ LeqZero(price))
        THEN Reject(c, rq, InvalidPrice)
        ELSE IF Truthy(category_id) /\ IsNaN(category_id)
        THEN Reject(c, rq, InvalidCategoryId)
        ELSE Await(c, rq)

\* SELECT * FROM products WHERE id = ?; categoryExists is awaited next only
\* for a truthy category_id.
UpdateProductSelect(c) ==
  /\ At(c, "updateProduct", "select")
  /\ TablesUnchanged
  /\ IF ProductsById(Str(req[c].id)) = {}
     THEN Respond(c, req[c], Reply(404, "Product not found", req[c].q + 1))
     ELSE IF Truthy(req[c].category_id)
     THEN Goto(c, "exists")
     ELSE Goto(c, "update")

\* categoryExists(category_id)
UpdateProductExists(c) ==
  /\ At(c, "updateProduct", "exists")
  /\ TablesUnchanged
  /\ IF CategoriesById(req[c].category_id) = {}
     THEN Respond(c, req[c], Reply(400, "Category does not exist", req[c].q + 1))
     ELSE Goto(c, "update")

\* Mutant: affectedRows is not looked at, the UPDATE is answered 200.
UpdateProductWriteUnchecked(c) ==
  /\ At(c, "updateProduct", "update")
  /\ UsersUnchanged /\ CategoriesUnchanged /\ UNCHANGED seqProd
  /\ LET r == req[c]
         matched == ProductsById(Str(r.id))
         q == r.q + 1
     IN IF matched # {} /\ ProductWriteFails(r.name, r.price, r.category_id)
        THEN /\ UNCHANGED products
             /\ Respond(c, req[c], InternalError(q))
        ELSE /\ products' = (products \ matched) \cup
                  {ProductRow(m.id, r.name, r.price, r.category_id) :
                     m \in matched}
             /\ Respond(c, req[c], [Reply(200, "", q) EXCEPT
                              !.id = Str(r.id), !.name = r.name,
                              !.price = r.price,
                              !.category_id = r.category_id])

\* Mutant: a column whose field is missing from the body keeps its value.
UpdateProductWritePartial(c) ==
  /\ At(c, "updateProduct", "update")
  /\ UsersUnchanged /\ CategoriesUnchanged /\ UNCHANGED seqProd
  /\ LET r == req[c]
         matched == ProductsById(Str(r.id))
         q == r.q + 1
         Kept(m) ==
           [id |-> m.id,
            name |-> IF SqlNull(r.name) THEN m.name ELSE SqlVarchar(r.name),
            price |-> IF SqlNull(r.price) THEN m.price
                      ELSE SqlDecimal(r.price),
            category_id |-> IF SqlNull(r.category_id) THEN m.category_id
                            ELSE SqlInt(r.category_id)]
     IN IF matched = {}
        THEN /\ UNCHANGED products
             /\ Respond(c, req[c], Reply(404, "Product not found", q))
        ELSE IF SqlNotNumber(r.price) \/ SqlNotNumber(r.category_id)
                  \/ ~ForeignKeyHolds(SqlInt(r.category_id))
        THEN /\ UNCHANGED products
             /\ Respond(c, req[c], InternalError(q))
        ELSE /\ products' = (products \ matched) \cup
                  {Kept(m) : m \in matched}
             /\ Respond(c, req[c], [Reply(200, "", q) EXCEPT
                              !.id = Str(r.id), !.name = r.name,
                              !.price = r.price,
                              !.category_id = r.category_id])

\* UPDATE products SET name = ?, price = ?, category_id = ? WHERE id = ?:
\* 404 when affectedRows is 0, 500 when the UPDATE fails, else 200 with the
\* id as it came in the path and the body's fields.
UpdateProductWrite(c) ==
  /\ At(c, "updateProduct", "update")
  /\ UsersUnchanged /\ CategoriesUnchanged /\ UNCHANGED seqProd
  /\ LET r == req[c]
         matched == ProductsById(Str(r.id))
         q == r.q + 1
     IN IF matched = {}
        THEN /\ UNCHANGED products
             /\ Respond(c, req[c], Reply(404, "Product not found", q))
        ELSE IF ProductWriteFails(r.name, r.price, r.category_id)
        THEN /\ UNCHANGED products
             /\ Respond(c, req[c], InternalError(q))
        ELSE /\ products' = (products \ matched) \cup
                  {ProductRow(m.id, r.name, r.price, r.category_id) :
                     m \in matched}
             /\ Respond(c, req[c], [Reply(200, "", q) EXCEPT
                              !.id = Str(r.id), !.name = r.name,
                              !.price = r.price,
                              !.category_id = r.category_id])

\* deleteProduct: the id check, then the DELETE is issued.
DeleteProductBegin(c, id) ==
  /\ req[c].op = "idle"
  /\ TablesUnchanged
  /\ LET rq == [Idle EXCEPT !.op = "deleteProduct", !.pc = "delete",
                            !.id = id]
     IN IF IsNaN(Str(id))
        THEN Reject(c, rq, "Invalid product ID")
        ELSE Await(c, rq)

\* DELETE FROM products WHERE id = ?: 404 when affectedRows is 0, else 204.
DeleteProductDelete(c) ==
  /\ At(c, "deleteProduct", "delete")
  /\ UsersUnchanged /\ CategoriesUnchanged /\ UNCHANGED seqProd
  /\ LET matched == ProductsById(Str(req[c].id))
         q == req[c].q + 1
     IN IF matched = {}
        THEN /\ UNCHANGED products
             /\ Respond(c, req[c], Reply(404, "Product not found", q))
        ELSE /\ products' = products \ matched
             /\ Respond(c, req[c], Reply(204, "", q))

ProductStep(c, in) ==
  \/ \E id \in in.ids : GetProductByIdBegin(c, id)
  \/ GetProductByIdSelect(c)
  \/ \E name \in in.pnames, price \in in.prices, category_id \in in.cats :
       CreateProductBegin(c, name, price, category_id)
  \/ CreateProductExists(c)
  \/ CreateProductInsert(c)
  \/ \E id \in in.ids, name \in in.pnames, price \in in.prices,
        category_id \in in.cats :
       UpdateProductBegin(c, id, name, price, category_id)
  \/ UpdateProductSelect(c)
  \/ UpdateProductExists(c)
  \/ UpdateProductWrite(c)
  \/ \E id \in in.ids : DeleteProductBegin(c, id)
  \/ DeleteProductDelete(c)

(* ------------------------------------------------------- specifications *)

\* One request after the other: a single client, which sends its next
\* request after the response to the last.
OneClient == {"r1"}

\* Registrations and logins: user names, emails and passwords (one of them
\* missing from the body).
AuthInputs ==
  [unames |-> {Str(<<"n">>)},
   emails |-> {Str(<<"x">>), Str(<<"y">>)},
   passes |-> {Str(<<"p">>), Str(<<"q">>), Undef}]

\* Category requests: ids that exist, do not exist or are no number; names
\* that are valid, blank or missing.
CatInputs ==
  Inputs({<<"1">>, <<"2">>, <<"a">>},
         {Str(<<"a">>), Str(<<"b">>), Str(<<" ">>), Undef}, {}, {}, {})

\* Requests from two clients at once: a category_id can name category 1,
\* be 0 (falsy, so updateProduct does not check it) or be missing.
RaceInputs ==
  Inputs({<<"1">>, <<"2">>}, {Str(<<"a">>), Str(<<"b">>)}, {Str(<<"p">>)},
         {Num(10)}, {Num(1), Num(0), Undef})

\* Every kind of path id, with a valid and an invalid body.
IdInputs ==
  Inputs({<<"1">>, <<"2">>, <<"0">>, <<"-", "1">>, <<"1", ".", "5">>,
          <<"1", ".", "0">>, <<" ">>, <<"a">>},
         {Str(<<"a">>), Undef}, {Str(<<"p">>), Undef}, {Num(10)},
         {Num(1), Num(2)})

\* Every kind of product body.
BodyInputs ==
  Inputs({<<"1">>}, {Str(<<"a">>)}, {Str(<<"p">>), Undef},
         {Num(10), Num(0), Str(<<"a">>), Undef},
         {Num(1), Num(2), Str(<<"1">>), Num(0), Str(<<>>), Str(<<"a">>), Null,
          Undef})

\* Requests that pass and requests that fail validation.
ValidationInputs ==
  Inputs({<<"1">>, <<"a">>}, {Str(<<"a">>), Undef}, {Str(<<"p">>)},
         {Num(10), Num(0)}, {Num(1)})

\* One valid request body of each kind, for handlers whose calls fail.
FailInputs ==
  [unames |-> {Str(<<"n">>)}, emails |-> {Str(<<"x">>)},
   passes |-> {Str(<<"p">>)}, ids |-> {<<"1">>}, names |-> {Str(<<"a">>)},
   pnames |-> {Str(<<"p">>)}, prices |-> {Num(10)}, cats |-> {Num(1)}]

\* One category name and one product body, sent by racing requests.
CheckThenActInputs ==
  Inputs({<<"1">>}, {Str(<<"a">>)}, {Str(<<"p">>)}, {Num(10)}, {Num(1)})

\* Bodies of updateProduct: fields that are valid, falsy-but-present,
\* invalid and missing.
UpdateInputs ==
  Inputs({<<"1">>}, {Str(<<"a">>)},
         {Str(<<"p">>), Str(<<>>), Num(5), Undef},
         {Num(10), Num(0), Num(0 - 1), Str(<<"a">>), Undef},
         {Num(1), Num(0), Str(<<"a">>), Undef})

\* Rows created, renamed and deleted by racing requests: one id, the name a
\* category is created with and the name it is renamed to.
UpdateRaceInputs ==
  Inputs({<<"1">>}, {Str(<<"a">>), Str(<<"b">>)}, {Str(<<"p">>)}, {Num(10)},
         {Num(1)})

\* The auth endpoints; requests interleave at every await.
NextAuth == \E c \in Clients : AuthStep(c, AuthInputs)
SpecAuth == Init /\ [][NextAuth]_vars

\* The category endpoints; requests interleave at every await.
NextCat == \E c \in Clients : CategoryStep(c, CatInputs)
SpecCat == Init /\ [][NextCat]_vars

\* The category endpoints, one request after the other.
NextCatSeq == \E c \in OneClient : CategoryStep(c, CatInputs)
SpecCatSeq == Init /\ [][NextCatSeq]_vars

\* Categories created and deleted while products are read and written;
\* requests interleave at every await.
NextShop ==
  \E c \in Clients :
    \/ \E id \in RaceInputs.ids : GetCategoryByIdBegin(c, id)
    \/ GetCategoryByIdSelect(c)
    \/ \E name \in RaceInputs.names : CreateCategoryBegin(c, name)
    \/ CreateCategoryExists(c)
    \/ CreateCategoryInsert(c)
    \/ \E id \in RaceInputs.ids : DeleteCategoryBegin(c, id)
    \/ DeleteCategoryDelete(c)
    \/ ProductStep(c, RaceInputs)
SpecShop == Init /\ [][NextShop]_vars

\* The category and product endpoints, one request after the other, with
\* every kind of path id.
NextSeq ==
  \E c \in OneClient : CategoryStep(c, IdInputs) \/ ProductStep(c, IdInputs)
SpecSeq == Init /\ [][NextSeq]_vars

\* Categories created and deleted and products written, one request after
\* the other, with every kind of product body.
NextBody ==
  \E c \in OneClient :
    \/ \E name \in BodyInputs.names : CreateCategoryBegin(c, name)
    \/ CreateCategoryExists(c)
    \/ CreateCategoryInsert(c)
    \/ \E id \in BodyInputs.ids : DeleteCategoryBegin(c, id)
    \/ DeleteCategoryDelete(c)
    \/ ProductStep(c, BodyInputs)
SpecBody == Init /\ [][NextBody]_vars

\* Every category and product handler, one request after the other, failing
\* validation now and then.
NextValidation ==
  \E c \in OneClient :
    CategoryStep(c, ValidationInputs) \/ ProductStep(c, ValidationInputs)
SpecValidation == Init /\ [][NextValidation]_vars

\* Products created with a valid body and then updated with every kind of
\* body, one request after the other.
NextUpdate ==
  \E c \in OneClient :
    \/ \E name \in UpdateInputs.names : CreateCategoryBegin(c, name)
    \/ CreateCategoryExists(c)
    \/ CreateCategoryInsert(c)
    \/ CreateProductBegin(c, Str(<<"p">>), Num(10), Num(1))
    \/ CreateProductExists(c)
    \/ CreateProductInsert(c)
    \/ \E id \in UpdateInputs.ids, name \in UpdateInputs.pnames,
          price \in UpdateInputs.prices, category_id \in UpdateInputs.cats :
         UpdateProductBegin(c, id, name, price, category_id)
    \/ UpdateProductSelect(c)
    \/ UpdateProductExists(c)
    \/ UpdateProductWrite(c)
SpecUpdate == Init /\ [][NextUpdate]_vars

\* The handlers that check and then act (createCategory, createProduct)
\* racing with each other and with deleteCategory.
NextCheckThenAct ==
  \E c \in Clients :
    \/ \E name \in CheckThenActInputs.names : CreateCategoryBegin(c, name)
    \/ CreateCategoryExists(c)
    \/ CreateCategoryInsert(c)
    \/ \E id \in CheckThenActInputs.ids : DeleteCategoryBegin(c, id)
    \/ DeleteCategoryDelete(c)
    \/ \E name \in CheckThenActInputs.pnames,
          price \in CheckThenActInputs.prices,
          category_id \in CheckThenActInputs.cats :
         CreateProductBegin(c, name, price, category_id)
    \/ CreateProductExists(c)
    \/ CreateProductInsert(c)
SpecCheckThenAct == Init /\ [][NextCheckThenAct]_vars

\* Updates racing with deletes of the row they update; requests interleave
\* at every await.
NextUpdateRace ==
  \E c \in Clients :
    \/ \E name \in UpdateRaceInputs.names :
         \/ CreateCategoryBegin(c, name)
         \/ \E id \in UpdateRaceInputs.ids : UpdateCategoryBegin(c, id, name)
    \/ CreateCategoryExists(c)
    \/ CreateCategoryInsert(c)
    \/ UpdateCategorySelect(c)
    \/ UpdateCategoryWrite(c)
    \/ \E id \in UpdateRaceInputs.ids : DeleteCategoryBegin(c, id)
    \/ DeleteCategoryDelete(c)
    \/ \E name \in UpdateRaceInputs.pnames, price \in UpdateRaceInputs.prices,
          category_id \in UpdateRaceInputs.cats :
         \/ CreateProductBegin(c, name, price, category_id)
         \/ \E id \in UpdateRaceInputs.ids :
              UpdateProductBegin(c, id, name, price, category_id)
    \/ CreateProductExists(c)
    \/ CreateProductInsert(c)
    \/ UpdateProductSelect(c)
    \/ UpdateProductExists(c)
    \/ UpdateProductWrite(c)
    \/ \E id \in UpdateRaceInputs.ids : DeleteProductBegin(c, id)
    \/ DeleteProductDelete(c)
SpecUpdateRace == Init /\ [][NextUpdateRace]_vars

\* Every handler, one request after the other, where the call a handler
\* awaits may reject.
NextFail ==
  \E c \in OneClient :
    \/ AuthStep(c, FailInputs)
    \/ GetCategoriesBegin(c) \/ GetCategoriesSelect(c)
    \/ CategoryStep(c, FailInputs)
    \/ GetProductsBegin(c) \/ GetProductsSelect(c)
    \/ ProductStep(c, FailInputs)
    \/ CallFails(c)
SpecFail == Init /\ [][NextFail]_vars

(* ---------------------------------------------------------------- claims *)

\* The request c took the step.
Acts(c) == req'[c] # req[c] \/ sent'.to = c

\* C1: no two user rows have the same email, in any reachable state and
\* under any interleaving of register requests.
C1_EmailUnique == \A u, v \in users : u.email = v.email => u = v

\* C2: no two category rows have the same name, after any sequence of
\* createCategory, updateCategory and deleteCategory requests.
C2_NameUnique == \A a, b \in categories : a.name = b.name => a = b

\* C3: whenever createProduct or updateProduct writes a product row with a
\* category_id that is not NULL, a category row with that id exists at the
\* moment of the write.
C3_CategoryExistsAtWrite ==
  [][\A p \in products' \ products :
       p.category_id # Null =>
         p.category_id.n \in CatIds /\ p.category_id.n \in CatIds']_vars

\* C3 happens: updateProduct has just written a row with a category_id.
C3_Witness ==
  /\ sent.rq.op = "updateProduct" /\ sent.status = 200
  /\ Truthy(sent.category_id)
  /\ \E p \in products : p.category_id = SqlInt(sent.category_id)

\* The response r went to request c's handler op, answered at pc.
Answers(r, c, op, pc) == r.to = c /\ r.rq.op = op /\ r.rq.pc = pc

\* C4: a register whose email is already in the users table when its
\* SELECT runs returns 400 'Email already registered' and leaves the users
\* table as it was; a register whose email is not there and whose password
\* is a string goes on to hash and insert, returns 201 'User registered
\* successfully' and leaves a row with that email, so that the same
\* register sent next is the one refused.
C4_SecondRegisterRefused ==
  [][\A c \in Clients :
       /\ (At(c, "register", "select") /\ Acts(c)) =>
            IF \E u \in users : u.email = req[c].email.s
            THEN /\ Answers(sent', c, "register", "select")
                 /\ sent'.status = 400
                 /\ sent'.msg = "Email already registered"
                 /\ users' = users
            ELSE req'[c].pc = "hash" /\ users' = users
       /\ (At(c, "register", "hash") /\ Acts(c) /\ req[c].pass.k = "str") =>
            req'[c].pc = "insert" /\ users' = users
       /\ (At(c, "register", "insert") /\ Acts(c)) =>
            /\ Answers(sent', c, "register", "insert")
            /\ sent'.status = 201
            /\ sent'.msg = "User registered successfully"
            /\ \E u \in users' \ users : u.email = req[c].email.s
            /\ users \subseteq users'
    ]_vars

\* C4 happens: a second register of an email has just been refused.
C4_Witness ==
  /\ sent.rq.op = "register" /\ sent.status = 400
  /\ \E u \in users : u.email = sent.rq.email.s

\* C5: for every user row (a successful register of its email and
\* password), a login with that email and that password returns 200 'Login
\* Success.' and a token carrying that row's id; a login with that email and
\* another password returns 400 'Invalid credentials'; a login with an email
\* that no row has returns 400 'User not found'; and a token is issued only
\* when the password matches the hash of the selected row.
C5_LoginAfterRegister ==
  [][\A c \in Clients :
       /\ (At(c, "login", "select") /\ Acts(c)) =>
            LET known == {u \in users : u.email = req[c].email.s}
                registered ==
                  {u \in known : BcryptCompare(req[c].pass, u.pass)}
            IN IF known = {}
               THEN /\ Answers(sent', c, "login", "select")
                    /\ sent'.status = 400 /\ sent'.msg = "User not found"
               ELSE /\ req'[c].pc = "compare"
                    /\ req'[c].sel \in {u.id : u \in known}
                    /\ \A u \in registered :
                         req'[c].sel = u.id /\ req'[c].hashed = u.pass
                    /\ registered = {} =>
                         ~BcryptCompare(req[c].pass, req'[c].hashed)
       /\ (At(c, "login", "compare") /\ Acts(c) /\ req[c].pass.k = "str") =>
            /\ Answers(sent', c, "login", "compare")
            /\ IF BcryptCompare(req[c].pass, req[c].hashed)
               THEN /\ sent'.status = 200 /\ sent'.msg = "Login Success."
                    /\ sent'.token.id = req[c].sel
               ELSE /\ sent'.status = 400
                    /\ sent'.msg = "Invalid credentials"
                    /\ sent'.token = NoToken
       /\ (sent'.to = c /\ sent'.token # NoToken) =>
            /\ At(c, "login", "compare")
            /\ BcryptCompare(req[c].pass, req[c].hashed)
    ]_vars

\* C6: createCategory with a valid name that no row has when its SELECT runs
\* goes on to insert and returns 201 with an id that no category row had and
\* with that name, and the row is in the table; getCategoryById on the id
\* of a row returns 200 with that row's id and name.
C6_CreateThenGetById ==
  [][\A c \in Clients :
       /\ (req[c].op = "idle" /\ Acts(c) /\ sent'.rq.op = "createCategory") =>
            BlankName(sent'.rq.name)
       /\ (At(c, "createCategory", "exists") /\ Acts(c)) =>
            IF \E r \in categories : r.name = req[c].name.s
            THEN sent'.status = 400
            ELSE req'[c].pc = "insert" /\ sent'.to # c
       /\ (At(c, "createCategory", "insert") /\ Acts(c)) =>
            /\ Answers(sent', c, "createCategory", "insert")
            /\ sent'.status = 201
            /\ sent'.id.k = "num" /\ sent'.id.n \notin CatIds
            /\ sent'.name = req[c].name
            /\ categories' =
                 categories \cup {[id |-> sent'.id.n, name |-> req[c].name.s]}
       /\ (At(c, "getCategoryById", "select") /\ Acts(c)) =>
            \A r \in categories :
              req[c].id = ToDigits(r.id) =>
                /\ sent'.status = 200
                /\ sent'.id = Num(r.id) /\ sent'.name = Str(r.name)
    ]_vars

\* C6 happens: a category created with a valid new name has just been read
\* back by its id.
C6_Witness ==
  /\ sent.rq.op = "getCategoryById" /\ sent.status = 200
  /\ sent.id.n = 2 /\ Cardinality(categories) = 1

\* C7: createProduct with a name, a price and a category_id that pass its
\* checks returns 400 'Category does not exist' and inserts no product row
\* when the category_id matches no category row; when it matches one it goes
\* on to the INSERT, which returns 201 with the body's category_id in the
\* response and that category's id in the inserted row.
C7_CreateProductCategory ==
  [][\A c \in Clients :
       /\ (At(c, "createProduct", "exists") /\ Acts(c)) =>
            IF \E r \in categories : SqlIdEq(r.id, req[c].category_id)
            THEN req'[c].pc = "insert" /\ sent'.to # c /\ products' = products
            ELSE /\ Answers(sent', c, "createProduct", "exists")
                 /\ sent'.status = 400
                 /\ sent'.msg = "Category does not exist"
                 /\ products' = products
       /\ (/\ At(c, "createProduct", "insert") /\ Acts(c)
           /\ \E r \in categories : SqlIdEq(r.id, req[c].category_id)) =>
            /\ Answers(sent', c, "createProduct", "insert")
            /\ sent'.status = 201
            /\ sent'.category_id = req[c].category_id
            /\ \E p \in products' \ products :
                 /\ products' = products \cup {p}
                 /\ p.id = sent'.id.n
                 /\ p.category_id.k = "num"
                 /\ SqlIdEq(p.category_id.n, req[c].category_id)
                 /\ p.category_id.n \in CatIds
    ]_vars

\* C7 happens: a product has been created in an existing category, and
\* another createProduct has just been refused for a category that is not
\* there.
C7_Witness ==
  /\ sent.rq.op = "createProduct" /\ sent.status = 400
  /\ sent.msg = "Category does not exist"
  /\ sent.rq.category_id = Num(2)
  /\ \E p \in products : p.category_id = Num(1)

\* C8: for categories and for products, a DELETE that matches no row returns
\* 404 and changes nothing; a DELETE that matches a row returns 204 and
\* removes exactly that row; the id of a removed row is never the id of a
\* row again, and getById on an id that no row has returns 404.
C8_Delete ==
  [][\A c \in Clients :
       /\ (At(c, "deleteCategory", "delete") /\ Acts(c)) =>
            LET matched == {r \in categories : req[c].id = ToDigits(r.id)}
            IN /\ Answers(sent', c, "deleteCategory", "delete")
               /\ IF matched = {}
                  THEN sent'.status = 404 /\ TablesUnchanged
                  ELSE /\ sent'.status = 204
                       /\ categories' = categories \ matched
                       /\ UNCHANGED <<users, products>>
       /\ (At(c, "deleteProduct", "delete") /\ Acts(c)) =>
            LET matched == {r \in products : req[c].id = ToDigits(r.id)}
            IN /\ Answers(sent', c, "deleteProduct", "delete")
               /\ IF matched = {}
                  THEN sent'.status = 404 /\ TablesUnchanged
                  ELSE /\ sent'.status = 204
                       /\ products' = products \ matched
                       /\ UNCHANGED <<users, categories>>
       /\ \A i \in 1..(seqCat - 1) : i \notin CatIds => i \notin CatIds'
       /\ \A i \in 1..(seqProd - 1) : i \notin ProdIds => i \notin ProdIds'
       /\ (/\ At(c, "getCategoryById", "select") /\ Acts(c)
           /\ ~\E r \in categories : req[c].id = ToDigits(r.id)) =>
            sent'.status = 404
       /\ (/\ At(c, "getProductById", "select") /\ Acts(c)
           /\ ~\E r \in products : req[c].id = ToDigits(r.id)) =>
            sent'.status = 404
    ]_vars

\* A string in which no digit occurs is no number.
NonNumeric(cs) == \A i \in 1..Len(cs) : cs[i] \notin Digits

\* The handlers that take an id from the path, and what they say of a bad one.
CategoryIdOps == {"getCategoryById", "updateCategory", "deleteCategory"}
ProductIdOps == {"getProductById", "updateProduct", "deleteProduct"}

\* C9: getById, update and delete on categories and on products, called
\* with a non-numeric id, return 400 'Invalid category ID' / 'Invalid product
\* ID' at once: no query is performed and the three tables are unchanged.
C9_NonNumericId ==
  [][\A c \in Clients :
       (/\ req[c].op = "idle" /\ Acts(c)
        /\ (IF sent'.to = c THEN sent'.rq.op ELSE req'[c].op)
             \in CategoryIdOps \cup ProductIdOps
        /\ NonNumeric(IF sent'.to = c THEN sent'.rq.id ELSE req'[c].id)) =>
         /\ sent'.to = c
         /\ sent'.status = 400
         /\ sent'.msg = IF sent'.rq.op \in CategoryIdOps
                        THEN "Invalid category ID" ELSE "Invalid product ID"
         /\ sent'.q = 0
         /\ req'[c] = Idle
         /\ TablesUnchanged
    ]_vars

\* A well-formed positive integer: decimal digits only, and not zero.
WellFormedPositiveInteger(cs) ==
  cs # <<>> /\ AllDigits(cs) /\ DecVal(cs) > 0

\* C10: getById on categories and on products answers 400 to every id that
\* is not a well-formed positive integer, and answers 404 only to a
\* well-formed positive integer that is the id of no row.
C10_InvalidIdOrNotFound ==
  [][\A c \in Clients :
       (sent'.to = c /\ sent'.rq.op \in {"getCategoryById", "getProductById"})
         => LET id == sent'.rq.id
                rows == IF sent'.rq.op = "getCategoryById"
                        THEN CatIds ELSE ProdIds
            IN /\ ~WellFormedPositiveInteger(id) => sent'.status = 400
               /\ sent'.status = 404 =>
                    WellFormedPositiveInteger(id) /\ DecVal(id) \notin rows
    ]_vars

\* C11: the pass column of every user row holds a bcrypt hash of the
\* password its register was given, never the password as it came; every
\* row written to users is such a row, and the responses of register and
\* login carry a status, a message and at most a token, and no password.
C11_PasswordHashed ==
  [][/\ \A u \in users' : u.pass.rounds = BcryptRounds /\ u.pass.salt \in Salts
     /\ \A c \in Clients :
          /\ (At(c, "register", "insert") /\ Acts(c)) =>
               \A u \in users' \ users :
                 /\ u.pass # [NoHash EXCEPT !.digest = req[c].pass.s]
                 /\ \E salt \in Salts : u.pass = BcryptHash(req[c].pass, salt)
          /\ (sent'.to = c /\ sent'.rq.op \in {"register", "login"}) =>
               /\ sent'.id = Undef /\ sent'.name = Undef
               /\ sent'.price = Undef /\ sent'.category_id = Undef
               /\ sent'.token.id \in {0} \cup UserIds
    ]_vars

\* C11 happens: a register has just stored its row and been answered 201.
C11_Witness ==
  /\ sent.rq.op = "register" /\ sent.status = 201
  /\ \E u \in users : u.email = sent.rq.email.s /\ u.pass.digest = sent.rq.pass.s

\* The handler that the routers give a request to.
Route(c, rq) ==
  \/ rq.op = "getCategoryById" /\ GetCategoryByIdBegin(c, rq.id)
  \/ rq.op = "createCategory" /\ CreateCategoryBegin(c, rq.name)
  \/ rq.op = "updateCategory" /\ UpdateCategoryBegin(c, rq.id, rq.name)
  \/ rq.op = "deleteCategory" /\ DeleteCategoryBegin(c, rq.id)
  \/ rq.op = "getProductById" /\ GetProductByIdBegin(c, rq.id)
  \/ rq.op = "createProduct"
       /\ CreateProductBegin(c, rq.name, rq.price, rq.category_id)
  \/ rq.op = "updateProduct"
       /\ UpdateProductBegin(c, rq.id, rq.name, rq.price, rq.category_id)
  \/ rq.op = "deleteProduct" /\ DeleteProductBegin(c, rq.id)

\* Requests sent again and again: every handler, with ids and bodies that the
\* validation refuses and that it lets through.
Repeated ==
  LET ids == {<<"1">>, <<"a">>}
      names == {Str(<<"a">>), Str(<<" ">>)}
      prices == {Num(10), Num(0)}
      cats == {Num(1), Str(<<"a">>)}
      Rq(op, id, name, price, cat) ==
        [Idle EXCEPT !.op = op, !.id = id, !.name = name, !.price = price,
                     !.category_id = cat]
  IN {Rq(op, id, Undef, Undef, Undef) :
        op \in {"getCategoryById", "deleteCategory", "getProductById",
                "deleteProduct"}, id \in ids}
     \cup {Rq("createCategory", <<>>, name, Undef, Undef) :
             name \in names \cup {Undef}}
     \cup {Rq("updateCategory", id, name, Undef, Undef) :
             id \in ids, name \in names}
     \cup {Rq("createProduct", <<>>, name, price, cat) :
             name \in {Str(<<"a">>), Undef}, price \in prices, cat \in cats}
     \cup {Rq("updateProduct", <<"1">>, name, price, cat) :
             name \in names, price \in prices \cup {Str(<<"a">>)},
             cat \in cats}

\* The validation errors a handler can answer with.
ValidationErrors(op) ==
  CASE op \in {"getCategoryById", "deleteCategory"} -> {"Invalid category ID"}
    [] op \in {"getProductById", "deleteProduct"} -> {"Invalid product ID"}
    [] op = "createCategory" -> {InvalidCategoryName}
    [] op = "updateCategory" -> {"Invalid category ID", InvalidCategoryName}
    [] op = "createProduct" ->
         {InvalidProductName, InvalidPrice, InvalidCategoryId}
    [] op = "updateProduct" ->
         {"Invalid product ID", "Product name must be a non-empty string.",
          InvalidPrice, InvalidCategoryId}

\* Request rq, sent now by the idle client c, fails validation with error m.
FailsValidation(c, rq, m) ==
  ENABLED (Route(c, rq) /\ sent'.status = 400 /\ sent'.msg = m)

\* C12: whether a request fails validation, and with which 400 error, is the
\* same before and after every step of every other request, whatever that
\* step did to the store; and the answer a request that fails validation
\* gets is that error. (The client r2 sends nothing in this specification,
\* so that what it would be answered can be asked in every state.)
C12_ValidationRepeats ==
  [][/\ \A rq \in Repeated :
          \A m \in ValidationErrors(rq.op) :
            FailsValidation("r2", rq, m) <=> FailsValidation("r2", rq, m)'
     /\ \A c \in OneClient :
          (sent'.to = c /\ sent'.status = 400 /\ sent'.rq.pc = "begin") =>
            /\ TablesUnchanged /\ sent'.q = 0
            /\ \A rq \in {[sent'.rq EXCEPT !.pc = "idle"]}, m \in {sent'.msg} :
                 FailsValidation("r2", rq, m)
    ]_vars

\* C12 happens: a request has just failed validation while the tables hold
\* rows that an earlier request put there.
C12_Witness ==
  /\ sent.status = 400 /\ sent.rq.pc = "begin"
  /\ categories # {} /\ products # {}

\* The awaits of each handler.
Awaits(op) ==
  CASE op = "register" -> {"select", "hash", "insert"}
    [] op = "login" -> {"select", "compare"}
    [] op \in {"getCategories", "getCategoryById", "getProducts",
               "getProductById"} -> {"select"}
    [] op \in {"createCategory", "createProduct"} -> {"exists", "insert"}
    [] op = "updateCategory" -> {"select", "update"}
    [] op = "updateProduct" -> {"select", "exists", "update"}
    [] op \in {"deleteCategory", "deleteProduct"} -> {"delete"}

\* C13: when the call a handler awaits fails, whichever handler and whichever
\* of its awaits it is, the request is answered 500 'Internal server error'
\* with no other field, the handler ends there without issuing the call
\* again, and no table changes. Every request is answered once: the step
\* that answers it ends its handler, and a handler ends only by answering.
C13_FailureAnswered500 ==
  [][\A c \in Clients :
       /\ CallFails(c) =>
            /\ req[c].pc \in Awaits(req[c].op)
            /\ sent' = [InternalError(sent'.q) EXCEPT !.to = c, !.rq = req[c]]
            /\ sent'.q = IF req[c].pc \in HashingCalls
                         THEN req[c].q ELSE req[c].q + 1
            /\ req'[c] = Idle
            /\ TablesUnchanged
       /\ sent'.to = c => req'[c] = Idle
       /\ (req[c].op # "idle" /\ req'[c].op = "idle") =>
            sent'.to = c /\ sent'.rq = req[c]
       /\ (sent'.to = c /\ sent'.status = 500) =>
            sent'.msg = "Internal server error"
    ]_vars

\* C13 happens: the UPDATE of an updateProduct, its third call, has just
\* failed and been answered 500.
C13_Witness ==
  /\ sent.status = 500 /\ sent.rq.op = "updateProduct"
  /\ sent.rq.pc = "update" /\ sent.q = 3
  /\ \E p \in products : p.id = 1

\* C14 as stated, its second race: a createProduct whose category was
\* deleted between its existence check and its INSERT returns 201 and leaves
\* a product row for a category that no longer exists.
C14_CreatedForDeletedCategory ==
  [][\A c \in Clients :
       (/\ At(c, "createProduct", "insert") /\ Acts(c)
        /\ CategoriesById(req[c].category_id) = {}) =>
         /\ sent'.status = 201
         /\ \E p \in products' \ products :
              p.category_id.n \notin CatIds'
    ]_vars

\* C14: the INSERT of createCategory looks at no name, so that of two
\* concurrent requests with one name, both past the existence check, both
\* insert and return 201; the INSERT of a createProduct whose category was
\* deleted after its existence check is refused by the foreign key, and the
\* request is answered 500 and leaves no row.
C14_CheckThenAct ==
  [][\A c \in Clients :
       /\ (At(c, "createCategory", "insert") /\ Acts(c)) =>
            /\ sent'.status = 201
            /\ \E r \in categories' \ categories : r.name = req[c].name.s
       /\ (/\ At(c, "createProduct", "insert") /\ Acts(c)
           /\ CategoriesById(req[c].category_id) = {}) =>
            /\ sent'.status = 500 /\ sent'.msg = "Internal server error"
            /\ products' = products
    ]_vars

\* C14 happens: two createCategory requests with one name have both been
\* answered 201 and two rows carry that name.
C14_Witness ==
  /\ sent.rq.op = "createCategory" /\ sent.status = 201
  /\ \E a, b \in categories : a.id # b.id /\ a.name = b.name

\* What a body field leaves in its column: NULL when the field is missing.
Written(v) == IF v.k \in {"undef", "null"} THEN Null ELSE Num(ToNumber(v).ip)

\* C15: an updateProduct answered 200 has set name, price and category_id
\* of the row with its id to the values of the body, all three at once - a
\* field missing from the body is written as NULL and does not keep the
\* row's value - and has left the row's id and every other row as they were.
C15_UpdateOverwrites ==
  [][\A c \in Clients :
       (sent'.to = c /\ sent'.rq.op = "updateProduct" /\ sent'.status = 200)
         => LET r == req[c]
                old == {p \in products : r.id = ToDigits(p.id)}
                new == {p \in products' : r.id = ToDigits(p.id)}
            IN /\ old # {} /\ {p.id : p \in new} = {p.id : p \in old}
               /\ products' \ new = products \ old
               /\ \A p \in new :
                    /\ r.name.k = "str" /\ p.name = r.name.s
                    /\ Num(p.price) = Written(r.price)
                    /\ p.category_id = Written(r.category_id)
               /\ sent'.id = Str(r.id) /\ sent'.name = r.name
               /\ sent'.price = r.price /\ sent'.category_id = r.category_id
    ]_vars

\* C15 happens: an updateProduct with no category_id in its body has been
\* answered 200 and the row, created in category 1, has none now.
C15_Witness ==
  /\ sent.rq.op = "updateProduct" /\ sent.status = 200
  /\ sent.rq.category_id = Undef
  /\ \E p \in products : sent.rq.id = ToDigits(p.id) /\ p.category_id = Null

\* C16: updateProduct checks a body field only when the field is truthy.
\* With a numeric id, a truthy name that is no string, a truthy price that is
\* no number or is not above zero, or a truthy category_id that is no number
\* is answered 400; a body whose truthy fields pass is not answered 400,
\* price 0, name '' and category_id 0 among them, and for an existing
\* product it goes on to the UPDATE, through the category existence check
\* only when category_id is truthy.
C16_TruthyFieldsOnly ==
  [][\A c \in Clients :
       /\ (/\ req[c].op = "idle" /\ Acts(c)
           /\ (IF sent'.to = c THEN sent'.rq.op ELSE req'[c].op)
                = "updateProduct") =>
            LET r == IF sent'.to = c THEN sent'.rq ELSE req'[c]
                bad ==
                  \/ Truthy(r.name) /\ r.name.k # "str"
                  \/ Truthy(r.price) /\ (IsNaN(r.price) \/ LeqZero(r.price))
                  \/ Truthy(r.category_id) /\ IsNaN(r.category_id)
                falsy ==
                  /\ r.name \in {Str(<<>>), Undef}
                  /\ r.price \in {Num(0), Undef}
                  /\ r.category_id \in {Num(0), Undef}
            IN ~NonNumeric(r.id) =>
                 /\ bad => sent'.to = c /\ sent'.status = 400
                 /\ falsy => sent'.to # c /\ req'[c].pc = "select"
       /\ (/\ At(c, "updateProduct", "select") /\ Acts(c)
           /\ \E p \in products : req[c].id = ToDigits(p.id)) =>
            /\ sent'.to # c
            /\ req'[c].pc = IF Truthy(req[c].category_id)
                            THEN "exists" ELSE "update"
    ]_vars

\* C16 happens: an updateProduct with price 0 and name '' has been written.
C16_Witness ==
  /\ sent.rq.op = "updateProduct" /\ sent.status = 200
  /\ sent.rq.price = Num(0) /\ sent.rq.name = Str(<<>>)
  /\ \E p \in products : p.price = 0 /\ p.name = <<>>

\* C17: createProduct checks name, then price, then category_id, then
\* whether the category exists, and its 400 names the first check that
\* fails: an invalid name gives the name error whatever price and
\* category_id are, a valid name with an invalid price gives the price error
\* whatever category_id is, and the category query is issued only when the
\* three fields pass.
C17_FirstFailingField ==
  [][\A c \in Clients :
       (/\ req[c].op = "idle" /\ Acts(c)
        /\ (IF sent'.to = c THEN sent'.rq.op ELSE req'[c].op)
             = "createProduct") =>
         LET r == IF sent'.to = c THEN sent'.rq ELSE req'[c]
             name == BlankName(r.name)
             price == IsNaN(r.price) \/ LeqZero(r.price)
             category == IsNaN(r.category_id)
             refused(msg) ==
               /\ sent'.to = c /\ sent'.status = 400 /\ sent'.msg = msg
               /\ sent'.q = 0 /\ req'[c] = Idle
         IN /\ name => refused(InvalidProductName)
            /\ (~name /\ price) => refused(InvalidPrice)
            /\ (~name /\ ~price /\ category) => refused(InvalidCategoryId)
            /\ (~name /\ ~price /\ ~category) =>
                 sent'.to # c /\ req'[c].pc = "exists"
    ]_vars

\* C17 happens: a createProduct with an invalid name, an invalid price and an
\* invalid category_id has just been answered with the name error.
C17_Witness ==
  /\ sent.rq.op = "createProduct" /\ sent.status = 400
  /\ sent.msg = InvalidProductName
  /\ sent.rq.name = Undef /\ sent.rq.price = Str(<<"a">>)
  /\ sent.rq.category_id = Str(<<"a">>)

\* C18: updateCategory with a valid id and a valid name returns 404 and
\* changes nothing when no category row has that id; otherwise it sets the
\* name of that row to the name it was given, changes no other row and
\* returns 200 with that id and name, whether or not another row has that
\* name already.
C18_UpdateCategory ==
  [][\A c \in Clients :
       /\ (/\ req[c].op = "idle" /\ Acts(c)
           /\ (IF sent'.to = c THEN sent'.rq.op ELSE req'[c].op)
                = "updateCategory") =>
            LET r == IF sent'.to = c THEN sent'.rq ELSE req'[c]
            IN (WellFormedPositiveInteger(r.id) /\ ~BlankName(r.name)) =>
                 sent'.to # c /\ req'[c].pc = "select"
       /\ (At(c, "updateCategory", "select") /\ Acts(c)) =>
            IF \E x \in categories : req[c].id = ToDigits(x.id)
            THEN sent'.to # c /\ req'[c].pc = "update" /\ TablesUnchanged
            ELSE sent'.to = c /\ sent'.status = 404 /\ TablesUnchanged
       /\ (At(c, "updateCategory", "update") /\ Acts(c)) =>
            LET old == {x \in categories : req[c].id = ToDigits(x.id)}
            IN IF old = {}
               THEN sent'.to = c /\ sent'.status = 404 /\ TablesUnchanged
               ELSE /\ sent'.to = c /\ sent'.status = 200
                    /\ sent'.id = Str(req[c].id) /\ sent'.name = req[c].name
                    /\ categories' = (categories \ old) \cup
                         {[id |-> x.id, name |-> req[c].name.s] : x \in old}
                    /\ UNCHANGED <<users, products>>
    ]_vars

\* C18 happens: an updateCategory has just given a row the name that
\* another row has, and been answered 200.
C18_Witness ==
  /\ sent.rq.op = "updateCategory" /\ sent.status = 200
  /\ \E a, b \in categories :
       /\ a.id # b.id /\ a.name = b.name
       /\ sent.rq.id = ToDigits(a.id) /\ sent.rq.name = Str(a.name)

C20_UsersOnlyGrow ==
  [][/\ users \subseteq users'
     /\ users' # users =>
          /\ Cardinality(users' \ users) = 1
          /\ \E c \in Clients :
               At(c, "register", "insert") /\ sent'.to = c /\ sent'.status = 201
     /\ \A c \in Clients :
          /\ (req[c].op = "login" /\ Acts(c)) => users' = users
          /\ (sent'.to = c /\ sent'.rq.op = "login") => sent'.q = 1
          /\ req'[c].op = "login" => req'[c].q <= 1
    ]_vars

\* C20 happens: with a user registered, a login has just been answered 200
\* after one query.
C20_Witness ==
  /\ sent.rq.op = "login" /\ sent.status = 200 /\ sent.q = 1
  /\ users # {}

\* C21: a step that answers a request with 400 or 404 leaves the rows of
\* users, categories and products as they were, and so does every step of
\* a handler that answers nothing yet: the steps before an error response
\* only read, on the duplicate-name, duplicate-email, category-missing and
\* not-found paths too.
C21_ErrorPathsWriteNothing ==
  [][(sent'.to = "none" \/ sent'.status \in {400, 404}) =>
       /\ users' = users
       /\ categories' = categories
       /\ products' = products
    ]_vars

\* C21 happens: with rows in the tables, a request has just been answered
\* 400 or 404 after a read of the store.
C21_Witness ==
  /\ sent.status \in {400, 404} /\ sent.q >= 1
  /\ sent.msg \in {"Category already exists", "Email already registered",
                   "Category does not exist", "Product not found"}
  /\ users # {} /\ categories # {}

\* C22: updateCategory and updateProduct answer 200 only in their UPDATE
\* step and only when a row with the given id is in the table at that
\* step; when no row has the id at the UPDATE - a delete removed it after
\* the handler's SELECT found it - the answer is 404 and the tables are
\* left as they are, with no row created.
C22_UpdateAfterDelete ==
  [][\A c \in Clients :
       /\ (/\ sent'.to = c /\ sent'.status = 200
           /\ sent'.rq.op \in {"updateCategory", "updateProduct"}) =>
            /\ req[c].pc = "update"
            /\ sent'.rq.op = "updateCategory" =>
                 \E x \in categories : req[c].id = ToDigits(x.id)
            /\ sent'.rq.op = "updateProduct" =>
                 \E x \in products : req[c].id = ToDigits(x.id)
       /\ (/\ At(c, "updateCategory", "update") /\ Acts(c)
           /\ ~\E x \in categories : req[c].id = ToDigits(x.id)) =>
            /\ sent'.to = c /\ sent'.status = 404
            /\ categories' = categories
            /\ UNCHANGED <<users, products>>
       /\ (/\ At(c, "updateProduct", "update") /\ Acts(c)
           /\ ~\E x \in products : req[c].id = ToDigits(x.id)) =>
            /\ sent'.to = c /\ sent'.status = 404
            /\ products' = products
            /\ UNCHANGED <<users, categories>>
    ]_vars

\* C22 happens: an updateProduct whose SELECT found the product and whose
\* category check passed has just been answered 404 by its UPDATE, and no
\* product has the id.
C22_Witness ==
  /\ sent.rq.op = "updateProduct" /\ sent.rq.pc = "update"
  /\ sent.status = 404 /\ sent.q = 3
  /\ ~\E x \in products : sent.rq.id = ToDigits(x.id)

====
